---- MODULE Spec2Model ----
(***************************************************************************)
(* A model of crt_scraper.py: the two crt.sh adapters and the record       *)
(* normalisation they share, the status prober and its thread pool, and    *)
(* the orchestration in main.                                              *)
(*                                                                         *)
(* A Python str is modelled as a sequence of one-character strings, so     *)
(* that count, split, startswith, strip and the regular-expression split   *)
(* are computed character by character as the interpreter computes them.   *)
(*                                                                         *)
(* Three specifications: Spec is a run of main; SpecExtract runs either    *)
(* adapter on a received response, over a wider set of responses;          *)
(* SpecPool is check_domains_status called with any list and max_workers.  *)
(* What main and the adapters print (--verbose, --no-color, the report of  *)
(* print_status_results) changes no state and is left out, and so is the   *)
(* return after the loop of check_domain_status (line 174), which no pass  *)
(* of the loop over ['https', 'http'] reaches.                             *)
(***************************************************************************)
EXTENDS Integers, Sequences, FiniteSets, TLC

VARIABLES
    \* an adapter run on a received response
    domain,       \* the target domain handed to the adapter
    data,         \* the name records of the response, one per row / entry
    adapter,      \* which adapter produced result: "none", "html" or "json"
    result,       \* the list the adapter returned
    \* main
    pc,           \* where main is
    args,         \* the parsed command line
    calls,        \* the adapter calls made so far, with their arguments
    gets,         \* the GET requests sent to crt.sh so far
    found,        \* the list the adapter returned to main
    output,       \* the text written to the output file, if any
    exit_code,    \* the exit code of the process, -1 while it runs
    \* check_domains_status
    cpc,          \* where check_domains_status is
    domains,      \* the list of domains it was called with
    max_workers,  \* the size of its thread pool
    threads,      \* the worker threads the executor has started
    queue,        \* the work queue of the executor
    future,       \* per submitted call of check_domain_status, its state
    heads,        \* per call, the HEAD requests it has sent
    results,      \* the list being returned
    collected     \* the futures as_completed has yielded

extractVars == <<domain, data, adapter, result>>
mainVars == <<pc, args, calls, gets, found, output, exit_code>>
poolVars == <<cpc, domains, max_workers, threads, queue, future, heads, results, collected>>
vars == <<extractVars, mainVars, poolVars>>

----------------------------------------------------------------------------
(* Bounds of the model.                                                    *)

\* a response is built from at most this many pieces (see Pieces)
MaxPieces == 5

\* check_domains_status is called with at most this many domains
MaxDomains == 2

\* and with max_workers up to this
MaxWorkers == 2

----------------------------------------------------------------------------
(* Python str primitives.                                                  *)

EmptyStr == <<>>

\* characters matched by \s (and removed by str.strip)
Whitespace == {" ", "\n"}

\* characters matched by the class [\n,\s] of the adapters' re.split
Separators == Whitespace \cup {","}

\* code points of the characters of the model, for the ordering of sorted()
Ord(c) ==
    CASE c = "\n" -> 10
      [] c = " "  -> 32
      [] c = "*"  -> 42
      [] c = ","  -> 44
      [] c = "."  -> 46
      [] c = "a"  -> 97
      [] c = "b"  -> 98

\* s[i:] of Python, with i counted from 1
Drop(s, i) == SubSeq(s, i, Len(s))

\* d occurs in s at position i
OccursAt(s, d, i) ==
    /\ i >= 1
    /\ i + Len(d) - 1 <= Len(s)
    /\ SubSeq(s, i, i + Len(d) - 1) = d

\* s.find(d), counted from 1; 0 when d does not occur in s
Find(s, d) ==
    IF \E i \in 1..Len(s) : OccursAt(s, d, i)
    THEN CHOOSE i \in 1..Len(s) :
            /\ OccursAt(s, d, i)
            /\ \A j \in 1..(i - 1) : ~OccursAt(s, d, j)
    ELSE 0

\* d in s
Contains(s, d) == Find(s, d) # 0

\* s.count(d): occurrences found left to right, none overlapping another
RECURSIVE StrCount(_, _)
StrCount(s, d) ==
    LET i == Find(s, d)
    IN  IF i = 0 THEN 0 ELSE 1 + StrCount(Drop(s, i + Len(d)), d)

\* s.split(d): the pieces between those occurrences
RECURSIVE StrSplit(_, _)
StrSplit(s, d) ==
    LET i == Find(s, d)
    IN  IF i = 0
        THEN <<s>>
        ELSE <<SubSeq(s, 1, i - 1)>> \o StrSplit(Drop(s, i + Len(d)), d)

\* s.startswith(p)
StartsWith(s, p) == OccursAt(s, p, 1)

\* s.lstrip() and s.strip()
RECURSIVE LStrip(_)
LStrip(s) ==
    IF s # EmptyStr /\ Head(s) \in Whitespace THEN LStrip(Tail(s)) ELSE s

RECURSIVE RStrip(_)
RStrip(s) ==
    IF s # EmptyStr /\ s[Len(s)] \in Whitespace
    THEN RStrip(SubSeq(s, 1, Len(s) - 1))
    ELSE s

Strip(s) == RStrip(LStrip(s))

\* position of the first separator of s, 0 when there is none
FirstSep(s) ==
    IF \E i \in 1..Len(s) : s[i] \in Separators
    THEN CHOOSE i \in 1..Len(s) :
            /\ s[i] \in Separators
            /\ \A j \in 1..(i - 1) : s[j] \notin Separators
    ELSE 0

\* s without the run of separators it starts with
RECURSIVE SkipSeps(_)
SkipSeps(s) ==
    IF s # EmptyStr /\ Head(s) \in Separators THEN SkipSeps(Tail(s)) ELSE s

\* re.split(r'[\n,\s]+', s): a leading or trailing run leaves an empty string
RECURSIVE ReSplit(_)
ReSplit(s) ==
    LET i == FirstSep(s)
    IN  IF i = 0
        THEN <<s>>
        ELSE <<SubSeq(s, 1, i - 1)>> \o ReSplit(SkipSeps(Drop(s, i)))

\* '.' in s
HasDot(s) == \E i \in 1..Len(s) : s[i] = "."

\* s < t in Python's ordering of str
RECURSIVE StrLess(_, _)
StrLess(s, t) ==
    IF t = EmptyStr THEN FALSE
    ELSE IF s = EmptyStr THEN TRUE
    ELSE IF Head(s) # Head(t) THEN Ord(Head(s)) < Ord(Head(t))
    ELSE StrLess(Tail(s), Tail(t))

\* sorted(list(S))
RECURSIVE Sorted(_)
Sorted(S) ==
    IF S = {} THEN <<>>
    ELSE LET m == CHOOSE x \in S : \A y \in S \ {x} : StrLess(x, y)
         IN  <<m>> \o Sorted(S \ {m})

Range(f) == {f[i] : i \in DOMAIN f}

\* the one-element list of a one-element set
SetToSeq1(S) == <<CHOOSE x \in S : TRUE>>

----------------------------------------------------------------------------
(* The normalisation of one name record, as each adapter writes it.        *)

WildcardMarker == <<"*", ".">>

\* the HTML adapter without the recovery of concatenated domains
HtmlSubdomain_NoRecovery(subdomain, d) ==
    LET s == Strip(subdomain)
        t == IF StartsWith(s, WildcardMarker) THEN Drop(s, 3) ELSE s
    IN  IF t # EmptyStr /\ HasDot(t) /\ Contains(t, d) THEN {t} ELSE {}

\* the subdomain after subdomain.strip() and the removal of a leading '*.'
HtmlStripped(subdomain) ==
    LET s == Strip(subdomain)
    IN  IF StartsWith(s, WildcardMarker) THEN Drop(s, 3) ELSE s

\* the domains one token of a table cell adds to the set
HtmlSubdomain(subdomain, d) ==
    LET s == HtmlStripped(subdomain)
    IN  IF StrCount(s, d) > 1
        THEN LET parts == StrSplit(s, d)
             IN  {parts[i] \o d : i \in {j \in 1..(Len(parts) - 1) :
                        parts[j] \o d # EmptyStr /\ HasDot(parts[j] \o d)}}
        ELSE IF s # EmptyStr /\ HasDot(s) /\ Contains(s, d)
        THEN {s}
        ELSE {}

\* the domains the sixth cell of one table row adds to the set
HtmlRow(cell, d) ==
    LET name_data == Strip(cell)
    IN  IF name_data # EmptyStr /\ Contains(name_data, d)
        THEN LET subdomains == ReSplit(name_data)
             IN  UNION {HtmlSubdomain(subdomains[i], d) : i \in DOMAIN subdomains}
        ELSE {}

\* get_domains_from_html on a response that was received: the sorted list
HtmlDomains(rows, d) ==
    Sorted(UNION {HtmlRow(rows[i], d) : i \in DOMAIN rows})

\* the JSON adapter leaving the wildcard prefix in place
JsonStripped_KeepWildcard(subdomain) == Strip(subdomain)

\* the JSON adapter keeping any dotted token of a record that holds the
\* target domain
JsonSubdomain_AnyDotted(subdomain, d) ==
    LET s == Strip(subdomain)
        t == IF StartsWith(s, WildcardMarker) THEN Drop(s, 3) ELSE s
    IN  IF StrCount(t, d) > 1
        THEN LET parts == StrSplit(t, d)
             IN  {parts[i] \o d : i \in {j \in 1..(Len(parts) - 1) :
                        parts[j] \o d # EmptyStr /\ HasDot(parts[j] \o d)}}
        ELSE IF t # EmptyStr /\ HasDot(t)
        THEN {t}
        ELSE {}

\* the subdomain after subdomain.strip() and the removal of a leading '*.'
JsonStripped(subdomain) ==
    LET s == Strip(subdomain)
    IN  IF StartsWith(s, WildcardMarker) THEN Drop(s, 3) ELSE s

\* the domains one token of a name_value adds to the set
JsonSubdomain(subdomain, d) ==
    LET s == JsonStripped(subdomain)
    IN  IF StrCount(s, d) > 1
        THEN LET parts == StrSplit(s, d)
             IN  {parts[i] \o d : i \in {j \in 1..(Len(parts) - 1) :
                        parts[j] \o d # EmptyStr /\ HasDot(parts[j] \o d)}}
        ELSE IF s # EmptyStr /\ HasDot(s) /\ Contains(s, d)
        THEN {s}
        ELSE {}

\* the domains the name_value of one entry adds to the set
JsonEntry(name_value, d) ==
    IF name_value # EmptyStr /\ Contains(name_value, d)
    THEN LET subdomains == ReSplit(name_value)
         IN  UNION {JsonSubdomain(subdomains[i], d) : i \in DOMAIN subdomains}
    ELSE {}

\* get_domains_from_json on a response that was received and decoded
JsonDomains(entries, d) ==
    Sorted(UNION {JsonEntry(entries[i], d) : i \in DOMAIN entries})

----------------------------------------------------------------------------
(* The responses the adapters are run on.                                  *)

\* target domains: one that overlaps itself ("a.a" in "a.a.a") and one that
\* does not
Targets == { <<"a", ".", "a">>, <<"a", ".", "b">> }

\* a record is a run of pieces: single characters and the target domain
Pieces(d) == { <<"a">>, <<".">>, <<"*">>, <<" ">>, <<",">>, d }

\* the mark that ends a record and starts the next one of the response
RowBreak == <<"|">>

RECURSIVE Flatten(_)
Flatten(ps) == IF ps = <<>> THEN <<>> ELSE Head(ps) \o Flatten(Tail(ps))

\* the records of a flattened run of pieces and row breaks
RECURSIVE Rows(_)
Rows(s) ==
    LET i == Find(s, RowBreak)
    IN  IF i = 0 THEN <<s>> ELSE <<SubSeq(s, 1, i - 1)>> \o Rows(Drop(s, i + 1))

PieceRuns(d) ==
    UNION {[1..n -> Pieces(d) \cup {RowBreak}] : n \in 0..MaxPieces}

Responses(d) == {Rows(Flatten(ps)) : ps \in PieceRuns(d)}

----------------------------------------------------------------------------
(* check_domain_status: the probe of one domain.                           *)

Chars(str) ==
    CASE str = "https" -> <<"h", "t", "t", "p", "s">>
      [] str = "http"  -> <<"h", "t", "t", "p">>
      [] str = "://"   -> <<":", "/", "/">>
      [] str = "www."  -> <<"w", "w", "w", ".">>

\* the protocols in the order the loop tries them
Protocols == <<"https", "http">>

\* f"{protocol}://{domain}"
ProbeUrl(protocol, d) == Chars(protocol) \o Chars("://") \o d

\* the status codes a server of the model answers a HEAD request with
StatusCodes == {200, 404}

\* response.url once the redirects are followed.  requests gives a URL
\* without a path the path "/", so the URL of a request that was not
\* redirected is the requested one with "/" appended; a redirect may also
\* end on the same host under the other scheme, or on another host.
FinalUrls(protocol, d) ==
    LET other == IF protocol = "https" THEN "http" ELSE "https"
    IN  { ProbeUrl(protocol, d) \o <<"/">>,
          ProbeUrl(other, d) \o <<"/">>,
          ProbeUrl(protocol, Chars("www.") \o d) \o <<"/">> }

\* response.url != url
Redirected(final, url) == final # url

\* the dict returned for a response
Answered(d, url, status_code, final) ==
    [domain |-> d, url |-> url, status_code |-> status_code,
     redirected |-> Redirected(final, url)]

\* the dict returned when the last protocol raised a RequestException
Unreachable(d, url) ==
    [domain |-> d, url |-> url, status_code |-> 0, error |-> TRUE]

\* the loop giving up on the first RequestException
LastProtocol_Any(protocol) == TRUE

\* the except clause: whether the loop ends on a RequestException
LastProtocol(protocol) == protocol = "http"

\* the protocol the loop goes on with
NextProtocol(k) == k + 1

\* a HEAD request as it went: the request URL, how it ended ("response",
\* "RequestException", or "Error" for an exception of another class), and
\* the status and final URL of a response
Sent(url, outcome, status_code, final) ==
    [url |-> url, outcome |-> outcome, status_code |-> status_code, final |-> final]

----------------------------------------------------------------------------
(* check_domains_status: the thread pool.                                  *)

Tasks == DOMAIN future

Running == {i \in Tasks : future[i].state = "running"}

Finished == {i \in Tasks : future[i].state = "finished"}

NewFuture == [state |-> "pending", protocol |-> 1, returned |-> {}, raised |-> FALSE]

\* ThreadPoolExecutor(max_workers) refuses a pool of no workers
ExecutorRefuses(mw) == mw <= 0

\* an executor that starts a thread for every submit
AdjustThreadCount_Unbounded(n, busy, mw) == {n + 1}

\* the thread count after a submit: the executor starts a thread while it
\* has fewer than max_workers, unless it counts one of them as idle
AdjustThreadCount(n, busy, mw) ==
    IF n < mw
    THEN IF n > busy THEN {n, n + 1} ELSE {n + 1}
    ELSE {n}

\* with ThreadPoolExecutor(max_workers=max_workers) as executor
Enter ==
    /\ cpc = "called"
    /\ cpc' = IF ExecutorRefuses(max_workers) THEN "raised" ELSE "submit"
    /\ UNCHANGED <<domains, max_workers, threads, queue, future, heads, results, collected>>
    /\ UNCHANGED <<extractVars, mainVars>>

\* executor.submit(check_domain_status, domain, timeout), for the next domain
Submit ==
    /\ cpc = "submit"
    /\ Len(future) < Len(domains)
    /\ future' = Append(future, NewFuture)
    /\ heads' = Append(heads, <<>>)
    /\ queue' = Append(queue, Len(future) + 1)
    /\ threads' \in AdjustThreadCount(threads, Cardinality(Running), max_workers)
    /\ UNCHANGED <<cpc, domains, max_workers, results, collected>>
    /\ UNCHANGED <<extractVars, mainVars>>

\* the comprehension is through: on to as_completed
Submitted ==
    /\ cpc = "submit"
    /\ Len(future) = Len(domains)
    /\ cpc' = "collect"
    /\ UNCHANGED <<domains, max_workers, threads, queue, future, heads, results, collected>>
    /\ UNCHANGED <<extractVars, mainVars>>

\* a worker thread that runs nothing takes the next work item
Start ==
    /\ queue # <<>>
    /\ threads > Cardinality(Running)
    /\ future' = [future EXCEPT ![Head(queue)].state = "running"]
    /\ queue' = Tail(queue)
    /\ UNCHANGED <<cpc, domains, max_workers, threads, heads, results, collected>>
    /\ UNCHANGED <<extractVars, mainVars>>

\* one pass of the loop of check_domain_status: requests.head answers
HeadAnswered(i) ==
    /\ future[i].state = "running"
    /\ LET protocol == Protocols[future[i].protocol]
           url == ProbeUrl(protocol, domains[i])
       IN  \E status_code \in StatusCodes, final \in FinalUrls(protocol, domains[i]) :
            /\ heads' = [heads EXCEPT ![i] = Append(@, Sent(url, "response", status_code, final))]
            /\ future' = [future EXCEPT ![i].state = "finished",
                            ![i].returned = {Answered(domains[i], url, status_code, final)}]
    /\ UNCHANGED <<cpc, domains, max_workers, threads, queue, results, collected>>
    /\ UNCHANGED <<extractVars, mainVars>>

\* one pass of the loop: requests.head raises a RequestException
HeadFailed(i) ==
    /\ future[i].state = "running"
    /\ LET protocol == Protocols[future[i].protocol]
           url == ProbeUrl(protocol, domains[i])
       IN  /\ heads' = [heads EXCEPT ![i] = Append(@, Sent(url, "RequestException", 0, <<>>))]
           /\ future' = IF LastProtocol(protocol)
                        THEN [future EXCEPT ![i].state = "finished",
                                ![i].returned = {Unreachable(domains[i], url)}]
                        ELSE [future EXCEPT ![i].protocol = NextProtocol(@)]
    /\ UNCHANGED <<cpc, domains, max_workers, threads, queue, results, collected>>
    /\ UNCHANGED <<extractVars, mainVars>>

\* one pass of the loop: requests.head raises an exception of another class,
\* which no except clause of check_domain_status catches
HeadRaised(i) ==
    /\ future[i].state = "running"
    /\ LET protocol == Protocols[future[i].protocol]
           url == ProbeUrl(protocol, domains[i])
       IN  /\ heads' = [heads EXCEPT ![i] = Append(@, Sent(url, "Error", 0, <<>>))]
           /\ future' = [future EXCEPT ![i].state = "finished", ![i].raised = TRUE]
    /\ UNCHANGED <<cpc, domains, max_workers, threads, queue, results, collected>>
    /\ UNCHANGED <<extractVars, mainVars>>

\* as_completed yields a finished future: results.append(future.result())
Collect(i) ==
    /\ cpc = "collect"
    /\ i \in Finished \ collected
    /\ ~future[i].raised
    /\ results' = results \o SetToSeq1(future[i].returned)
    /\ collected' = collected \cup {i}
    /\ UNCHANGED <<cpc, domains, max_workers, threads, queue, future, heads>>
    /\ UNCHANGED <<extractVars, mainVars>>

\* as_completed yields a future whose call raised: future.result() raises
\* it again and the with block is left
CollectRaised(i) ==
    /\ cpc = "collect"
    /\ i \in Finished \ collected
    /\ future[i].raised
    /\ cpc' = "unwind"
    /\ collected' = collected \cup {i}
    /\ UNCHANGED <<domains, max_workers, threads, queue, future, heads, results>>
    /\ UNCHANGED <<extractVars, mainVars>>

\* leaving the with block waits for the work submitted; the exception then
\* reaches the caller
Unwind ==
    /\ cpc = "unwind"
    /\ Finished = Tasks
    /\ cpc' = "raised"
    /\ UNCHANGED <<domains, max_workers, threads, queue, future, heads, results, collected>>
    /\ UNCHANGED <<extractVars, mainVars>>

\* return results
Return ==
    /\ cpc = "collect"
    /\ collected = Tasks
    /\ cpc' = "returned"
    /\ UNCHANGED <<domains, max_workers, threads, queue, future, heads, results, collected>>
    /\ UNCHANGED <<extractVars, mainVars>>

NextPool ==
    \/ Enter
    \/ Submit
    \/ Submitted
    \/ Start
    \/ \E i \in Tasks : HeadAnswered(i)
    \/ \E i \in Tasks : HeadFailed(i)
    \/ \E i \in Tasks : HeadRaised(i)
    \/ \E i \in Tasks : Collect(i)
    \/ \E i \in Tasks : CollectRaised(i)
    \/ Unwind
    \/ Return

----------------------------------------------------------------------------
(* The states of the parts that are not running.                           *)

ExtractIdle ==
    /\ domain = <<>>
    /\ data = <<>>
    /\ adapter = "none"
    /\ result = <<>>

NoArgs ==
    [domain |-> <<>>, json |-> FALSE, wildcard |-> FALSE, exclude_expired |-> FALSE,
     timeout |-> 0, check |-> FALSE, max_workers |-> 0]

MainIdle ==
    /\ pc = "idle"
    /\ args = NoArgs
    /\ calls = <<>>
    /\ gets = <<>>
    /\ found = <<>>
    /\ output = {}
    /\ exit_code = -1

PoolFresh ==
    /\ threads = 0
    /\ queue = <<>>
    /\ future = <<>>
    /\ heads = <<>>
    /\ results = <<>>
    /\ collected = {}

PoolIdle ==
    /\ cpc = "idle"
    /\ domains = <<>>
    /\ max_workers = 0
    /\ PoolFresh

----------------------------------------------------------------------------
(* The adapters run on a received response.                                *)

InitExtract ==
    /\ domain \in Targets
    /\ data \in Responses(domain)
    /\ adapter = "none"
    /\ result = <<>>
    /\ MainIdle
    /\ PoolIdle

ParseHtml ==
    /\ adapter = "none"
    /\ adapter' = "html"
    /\ result' = HtmlDomains(data, domain)
    /\ UNCHANGED <<domain, data, mainVars, poolVars>>

ParseJson ==
    /\ adapter = "none"
    /\ adapter' = "json"
    /\ result' = JsonDomains(data, domain)
    /\ UNCHANGED <<domain, data, mainVars, poolVars>>

NextExtract == ParseHtml \/ ParseJson

SpecExtract == InitExtract /\ [][NextExtract]_vars

----------------------------------------------------------------------------
(* check_domains_status called on its own.                                 *)

\* the i-th domain of the list: "a.a", "aa.a", "aaa.a", ...
HostName(i) == [j \in 1..i |-> "a"] \o <<".", "a">>

InitPool ==
    /\ cpc = "called"
    /\ \E n \in 0..MaxDomains : domains = [i \in 1..n |-> HostName(i)]
    /\ max_workers \in -1..MaxWorkers
    /\ PoolFresh
    /\ ExtractIdle
    /\ MainIdle

SpecPool == InitPool /\ [][NextPool]_vars

----------------------------------------------------------------------------
(* main, with the adapters' requests and the JSON adapter's fallback.      *)

\* the target domains of the command line: a domain, a string without a
\* '.', and the empty string
MainDomains == { <<"a", ".", "a">>, <<"a", "a">>, <<>> }

\* --timeout: the default and another value
Timeouts == {5, 30}

\* --max-workers: none, one, and the default
WorkerChoices == {0, 1, 10}

\* the records crt.sh answers with: none, one name, two names one of them a
\* wildcard
MainResponses ==
    { <<>>,
      << <<"a", ".", "a">> >>,
      << <<"a", ".", "a", ",", "*", ".", "a", "a", ".", "a">> >> }

\* the failures of a request: no connection or a timeout, raise_for_status
\* on an error status, and a body that is no JSON
HtmlFailures == {"ConnectionError", "HTTPError"}
JsonFailures == HtmlFailures \cup {"JSONDecodeError"}

\* the validation without the test for a '.'
ValidDomain_NonEmpty(d) == d # EmptyStr

\* not (not args.domain or '.' not in args.domain)
ValidDomain(d) == d # EmptyStr /\ HasDot(d)

\* f'%.{domain}' if include_wildcard else domain
SearchDomain(d, include_wildcard) ==
    IF include_wildcard THEN <<"%", ".">> \o d ELSE d

\* urllib.parse.quote on the characters of the model
RECURSIVE Quote(_)
Quote(s) ==
    IF s = EmptyStr THEN EmptyStr
    ELSE (IF Head(s) = "%" THEN <<"%", "2", "5">> ELSE <<Head(s)>>) \o Quote(Tail(s))

\* the URL an adapter requests
CrtUrl(call) ==
    [q |-> Quote(SearchDomain(call.domain, call.include_wildcard)),
     output_json |-> call.fn = "json",
     exclude_expired |-> call.exclude_expired]

\* a GET request as it went
Got(call, outcome, body) ==
    [fn |-> call.fn, url |-> CrtUrl(call), timeout |-> call.timeout,
     outcome |-> outcome, body |-> body]

\* the call main makes
MainCall(fn, a) ==
    [fn |-> fn, domain |-> a.domain, include_wildcard |-> a.wildcard,
     exclude_expired |-> a.exclude_expired, timeout |-> a.timeout]

\* a fallback that searches without the wildcard
FallbackCall_NoWildcard(call) ==
    [fn |-> "html", domain |-> call.domain, include_wildcard |-> FALSE,
     exclude_expired |-> call.exclude_expired, timeout |-> call.timeout]

\* the call of get_domains_from_html in the except clause of the JSON adapter
FallbackCall(call) ==
    [fn |-> "html", domain |-> call.domain, include_wildcard |-> call.include_wildcard,
     exclude_expired |-> call.exclude_expired, timeout |-> call.timeout]

Last(q) == q[Len(q)]

\* '\n'.join(domains)
RECURSIVE JoinLines(_)
JoinLines(ds) ==
    IF ds = <<>> THEN EmptyStr
    ELSE IF Len(ds) = 1 THEN ds[1]
    ELSE ds[1] \o <<"\n">> \o JoinLines(Tail(ds))

Init ==
    /\ pc = "start"
    /\ args \in [domain : MainDomains, json : BOOLEAN, wildcard : BOOLEAN,
                 exclude_expired : BOOLEAN, timeout : Timeouts, check : BOOLEAN,
                 max_workers : WorkerChoices]
    /\ calls = <<>>
    /\ gets = <<>>
    /\ found = <<>>
    /\ output = {}
    /\ exit_code = -1
    /\ ExtractIdle
    /\ PoolIdle

\* the domain validation of main: sys.exit(1) on a domain without a '.'
Validate ==
    /\ pc = "start"
    /\ IF ValidDomain(args.domain)
       THEN pc' = "fetch" /\ UNCHANGED exit_code
       ELSE pc' = "exited" /\ exit_code' = 1
    /\ UNCHANGED <<args, calls, gets, found, output>>
    /\ UNCHANGED <<extractVars, poolVars>>

\* main calls get_domains_from_json
CallJson ==
    /\ pc = "fetch"
    /\ args.json
    /\ calls' = Append(calls, MainCall("json", args))
    /\ pc' = "json"
    /\ UNCHANGED <<args, gets, found, output, exit_code>>
    /\ UNCHANGED <<extractVars, poolVars>>

\* main calls get_domains_from_html
CallHtml ==
    /\ pc = "fetch"
    /\ ~args.json
    /\ calls' = Append(calls, MainCall("html", args))
    /\ pc' = "html"
    /\ UNCHANGED <<args, gets, found, output, exit_code>>
    /\ UNCHANGED <<extractVars, poolVars>>

\* get_domains_from_json: the request is answered with entries
JsonAnswered ==
    /\ pc = "json"
    /\ \E entries \in MainResponses :
        /\ gets' = Append(gets, Got(Last(calls), "ok", entries))
        /\ found' = JsonDomains(entries, Last(calls).domain)
    /\ pc' = "fetched"
    /\ UNCHANGED <<args, calls, output, exit_code>>
    /\ UNCHANGED <<extractVars, poolVars>>

\* get_domains_from_json: the request fails, and the except clause calls
\* get_domains_from_html
JsonFailed ==
    /\ pc = "json"
    /\ \E failure \in JsonFailures :
        gets' = Append(gets, Got(Last(calls), failure, <<>>))
    /\ calls' = Append(calls, FallbackCall(Last(calls)))
    /\ pc' = "html"
    /\ UNCHANGED <<args, found, output, exit_code>>
    /\ UNCHANGED <<extractVars, poolVars>>

\* get_domains_from_html: the request is answered with rows
HtmlAnswered ==
    /\ pc = "html"
    /\ \E rows \in MainResponses :
        /\ gets' = Append(gets, Got(Last(calls), "ok", rows))
        /\ found' = HtmlDomains(rows, Last(calls).domain)
    /\ pc' = "fetched"
    /\ UNCHANGED <<args, calls, output, exit_code>>
    /\ UNCHANGED <<extractVars, poolVars>>

\* get_domains_from_html: the request fails, and the adapter returns []
HtmlFailed ==
    /\ pc = "html"
    /\ \E failure \in HtmlFailures :
        gets' = Append(gets, Got(Last(calls), failure, <<>>))
    /\ found' = <<>>
    /\ pc' = "fetched"
    /\ UNCHANGED <<args, calls, output, exit_code>>
    /\ UNCHANGED <<extractVars, poolVars>>

\* if not domains: 'No domains found.' and main returns
NoDomains ==
    /\ pc = "fetched"
    /\ found = <<>>
    /\ pc' = "exited"
    /\ exit_code' = 0
    /\ UNCHANGED <<args, calls, gets, found, output>>
    /\ UNCHANGED <<extractVars, poolVars>>

\* the output file is written
WriteOutput ==
    /\ pc = "fetched"
    /\ found # <<>>
    /\ output' = {JoinLines(found)}
    /\ pc' = "written"
    /\ UNCHANGED <<args, calls, gets, found, exit_code>>
    /\ UNCHANGED <<extractVars, poolVars>>

\* without --check main is through
Finish ==
    /\ pc = "written"
    /\ ~args.check
    /\ pc' = "exited"
    /\ exit_code' = 0
    /\ UNCHANGED <<args, calls, gets, found, output>>
    /\ UNCHANGED <<extractVars, poolVars>>

\* check_domains_status(domains, args.max_workers, args.timeout)
CallCheck ==
    /\ pc = "written"
    /\ args.check
    /\ pc' = "checking"
    /\ cpc' = "called"
    /\ domains' = found
    /\ max_workers' = args.max_workers
    /\ UNCHANGED <<threads, queue, future, heads, results, collected>>
    /\ UNCHANGED <<args, calls, gets, found, output, exit_code>>
    /\ UNCHANGED extractVars

\* the results are printed and main returns
CheckReturned ==
    /\ pc = "checking"
    /\ cpc = "returned"
    /\ pc' = "exited"
    /\ exit_code' = 0
    /\ UNCHANGED <<args, calls, gets, found, output>>
    /\ UNCHANGED <<extractVars, poolVars>>

\* an exception out of check_domains_status ends the process
CheckRaised ==
    /\ pc = "checking"
    /\ cpc = "raised"
    /\ pc' = "exited"
    /\ exit_code' = 1
    /\ UNCHANGED <<args, calls, gets, found, output>>
    /\ UNCHANGED <<extractVars, poolVars>>

NextMain ==
    \/ Validate
    \/ CallJson
    \/ CallHtml
    \/ JsonAnswered
    \/ JsonFailed
    \/ HtmlAnswered
    \/ HtmlFailed
    \/ NoDomains
    \/ WriteOutput
    \/ Finish
    \/ CallCheck
    \/ CheckReturned
    \/ CheckRaised

Next == NextMain \/ NextPool

Spec == Init /\ [][Next]_vars

----------------------------------------------------------------------------
(* Vocabulary of the claims about the normalisation.                       *)

Parsed == adapter # "none"

ResultSet == Range(result)

\* d occurs in s somewhere
Occurs(s, d) == \E i \in 1..Len(s) : OccursAt(s, d, i)

\* the number of places of s where d occurs
Occurrences(s, d) == Cardinality({i \in 1..Len(s) : OccursAt(s, d, i)})

EndsWith(s, d) == OccursAt(s, d, Len(s) - Len(d) + 1)

NoSeparator(s) == \A i \in 1..Len(s) : s[i] \notin Separators

\* the tokens listed in a record: its maximal runs free of separators
Listed(s) ==
    LET IsStart(i) == s[i] \notin Separators /\ (i = 1 \/ s[i - 1] \in Separators)
        IsEnd(j) == s[j] \notin Separators /\ (j = Len(s) \/ s[j + 1] \in Separators)
        EndOf(i) == CHOOSE j \in i..Len(s) : IsEnd(j) /\ \A k \in i..(j - 1) : ~IsEnd(k)
    IN  {SubSeq(s, i, EndOf(i)) : i \in {k \in 1..Len(s) : IsStart(k)}}

\* a token without the wildcard prefix it may carry
Unwild(t) == IF Len(t) >= 2 /\ t[1] = "*" /\ t[2] = "." THEN SubSeq(t, 3, Len(t)) ELSE t

Letters == {"a", "b"}

\* x is one or more non-empty labels of letters joined by dots
IsLabels(x) ==
    /\ x # <<>>
    /\ \A i \in 1..Len(x) : x[i] \in Letters \cup {"."}
    /\ x[1] # "." /\ x[Len(x)] # "."
    /\ \A i \in 1..(Len(x) - 1) : ~(x[i] = "." /\ x[i + 1] = ".")

\* t is d or <label(s)>.d
IsSubdomainOf(t, d) ==
    \/ t = d
    \/ /\ Len(t) > Len(d) + 1
       /\ EndsWith(t, d)
       /\ t[Len(t) - Len(d)] = "."
       /\ IsLabels(SubSeq(t, 1, Len(t) - Len(d) - 1))

\* the record lists only subdomains of d, each with or without a '*.' prefix
ListsSubdomains(s, d) == \A t \in Listed(s) : IsSubdomainOf(Unwild(t), d)

\* what such a response is said to yield
ListedDomains(rs) ==
    UNION {{Unwild(t) : t \in {u \in Listed(rs[i]) : HasDot(Unwild(u))}} : i \in DOMAIN rs}

\* s1 and s2 as the concatenation claim takes them, glued into one token
Glued(s1, s2, d) ==
    /\ EndsWith(s1, d) /\ Occurrences(s1, d) = 1 /\ ~StartsWith(s1, WildcardMarker)
    /\ EndsWith(s2, d) /\ Occurrences(s2, d) = 1 /\ ~StartsWith(s2, WildcardMarker)
    /\ NoSeparator(s1 \o s2)

\* C1: a record that is one token s1 s2, where s1 and s2 each end with the
\* target domain, contain it once and carry no '*.' prefix, yields exactly
\* the two domains s1 and s2, in the HTML adapter and in the JSON adapter.
C1_ConcatenationRecovery ==
    (Parsed /\ Len(data) = 1) =>
        \A k \in 1..(Len(data[1]) - 1) :
            LET s1 == SubSeq(data[1], 1, k)
                s2 == SubSeq(data[1], k + 1, Len(data[1]))
            IN  Glued(s1, s2, domain) => ResultSet = {s1, s2}

C1_Witness ==
    /\ adapter = "html" /\ Len(data) = 1
    /\ \E k \in 1..(Len(data[1]) - 1) :
            LET s1 == SubSeq(data[1], 1, k)
                s2 == SubSeq(data[1], k + 1, Len(data[1]))
            IN  Glued(s1, s2, domain) /\ s1 # s2 /\ Len(result) = 2

AllListSubdomains == \A i \in DOMAIN data : ListsSubdomains(data[i], domain)

\* C2 as stated: a response whose records list only subdomains of the target
\* domain yields exactly the listed subdomains without their '*.' prefix,
\* also when a listed subdomain contains the target domain more than once.
C2_ListedExactly_AsStated ==
    (Parsed /\ AllListSubdomains) => ResultSet = ListedDomains(data)

\* every listed subdomain holds the target domain once, as str.count counts
ListedOnce ==
    \A i \in DOMAIN data : \A t \in Listed(data[i]) : StrCount(Unwild(t), domain) = 1

\* C2 as amended: a response whose records list only subdomains of the target
\* domain, each holding the target domain once (occurrences counted left to
\* right without overlap), yields exactly the listed subdomains without
\* their '*.' prefix.
C2_ListedExactly ==
    (Parsed /\ AllListSubdomains /\ ListedOnce) => ResultSet = ListedDomains(data)

C2_Witness ==
    /\ adapter = "json" /\ AllListSubdomains /\ ListedOnce
    /\ \E i \in DOMAIN data : \E t \in Listed(data[i]) : t # Unwild(t)
    /\ \E i \in DOMAIN data : \E t \in Listed(data[i]) : t = Unwild(t)
    /\ result # <<>>

\* C3: no domain of the returned list starts with the wildcard marker '*.'.
C3_NoWildcardPrefix ==
    Parsed => \A x \in ResultSet : ~(Len(x) >= 2 /\ x[1] = "*" /\ x[2] = ".")

\* C4: every domain of the returned list is non-empty, contains a '.' and
\* contains the target domain; a listed token without the target domain or
\* without a '.' is not in the list.
C4_DomainSetInvariant ==
    Parsed =>
        /\ \A x \in ResultSet : x # <<>> /\ HasDot(x) /\ Occurs(x, domain)
        /\ \A i \in DOMAIN data : \A t \in Listed(data[i]) :
                (~Occurs(t, domain) \/ ~HasDot(t)) => t \notin ResultSet

C4_Witness ==
    /\ adapter = "html" /\ result # <<>>
    /\ \E i \in DOMAIN data : \E t \in Listed(data[i]) : HasDot(t) /\ ~Occurs(t, domain)

----------------------------------------------------------------------------
(* Vocabulary of the claims about the prober.                              *)

HttpsScheme == <<"h", "t", "t", "p", "s", ":", "/", "/">>
HttpScheme == <<"h", "t", "t", "p", ":", "/", "/">>

\* the host of a URL: what stands between "://" and the next "/"
HostOf(url) ==
    LET rest == Drop(url, Find(url, <<":", "/", "/">>) + 3)
        slash == Find(rest, <<"/">>)
    IN  IF slash = 0 THEN rest ELSE SubSeq(rest, 1, slash - 1)

\* the HEAD request failed: requests.head raised a RequestException
Failed(sent) == sent.outcome = "RequestException"

Succeeded(sent) == sent.outcome = "response"

\* C5: the first HEAD request of a probe goes to https://<domain>; one to
\* http://<domain> is sent only after the https request failed, at most
\* once, and it has been sent when a probe whose https request failed
\* ends; the status code returned is the one of the request that
\* succeeded, and it is 0 only when both requests failed.
C5_ProbeFallback ==
    \A i \in Tasks :
        LET h == heads[i]
        IN  /\ Len(h) <= 2
            /\ Len(h) >= 1 => h[1].url = HttpsScheme \o domains[i]
            /\ Len(h) = 2 => Failed(h[1]) /\ h[2].url = HttpScheme \o domains[i]
            /\ (Len(h) >= 1 /\ Succeeded(h[1])) => Len(h) = 1
            /\ (future[i].state = "finished" /\ Len(h) >= 1 /\ Failed(h[1])) => Len(h) = 2
            /\ \A r \in future[i].returned :
                /\ Len(h) >= 1
                /\ Succeeded(Last(h)) => r.status_code = Last(h).status_code
                /\ r.status_code = 0 <=> (Len(h) = 2 /\ Failed(h[1]) /\ Failed(h[2]))

C5_Witness ==
    \E i \in Tasks :
        /\ Len(heads[i]) = 2
        /\ Failed(heads[i][1])
        /\ Succeeded(heads[i][2])
        /\ \E r \in future[i].returned : r.status_code = 200

\* C6: with max_workers >= 1, the calls of check_domain_status that have
\* started and not returned are never more than max_workers.
C6_PoolBound ==
    max_workers >= 1 => Cardinality(Running) <= max_workers

C6_Witness ==
    /\ max_workers >= 1
    /\ Len(domains) > max_workers
    /\ Cardinality(Running) = max_workers
    /\ queue # <<>>

\* C7: check_domains_status never raises, for any max_workers the command
\* line accepts and any outcome of the probes, and it returns one result
\* per domain submitted, with status_code 0 for a domain that failed.
C7_NeverFails ==
    /\ cpc \notin {"unwind", "raised"}
    /\ cpc = "returned" =>
        /\ Len(results) = Len(domains)
        /\ \A i \in Tasks : \E k \in DOMAIN results :
            /\ results[k].domain = domains[i]
            /\ ~Succeeded(Last(heads[i])) => results[k].status_code = 0

\* C10: the 'redirected' field of a result for a response is true exactly
\* when the host of the final URL differs from the host requested.
C10_RedirectIndicator ==
    \A i \in Tasks : \A r \in future[i].returned :
        Succeeded(Last(heads[i])) =>
            (r.redirected <=> HostOf(Last(heads[i]).final) # domains[i])

----------------------------------------------------------------------------
(* Vocabulary of the claims about main and the adapters' requests.         *)

JsonRequestFailed ==
    gets # <<>> /\ gets[1].fn = "json" /\ gets[1].outcome # "ok"

SameArguments(c1, c2) ==
    /\ c1.domain = c2.domain
    /\ c1.include_wildcard = c2.include_wildcard
    /\ c1.exclude_expired = c2.exclude_expired
    /\ c1.timeout = c2.timeout

\* C8: when the request of the JSON adapter fails, get_domains_from_json
\* calls get_domains_from_html once, with the domain, include_wildcard,
\* exclude_expired and timeout it was called with, and returns its result;
\* the HTML adapter never calls the JSON adapter, so a run makes at most two
\* source requests; if the HTML request fails too the result is the empty
\* list and no exception.
C8_JsonFallback ==
    /\ Len(gets) <= 2
    /\ Len(calls) <= 2
    /\ \A i \in DOMAIN calls : calls[i].fn = "json" => i = 1
    /\ Len(calls) = 2 => JsonRequestFailed
    /\ JsonRequestFailed =>
        /\ Len(calls) = 2
        /\ calls[2].fn = "html"
        /\ SameArguments(calls[1], calls[2])
        /\ calls[2].domain = args.domain
        /\ calls[2].include_wildcard = args.wildcard
        /\ calls[2].exclude_expired = args.exclude_expired
        /\ calls[2].timeout = args.timeout
        /\ Len(gets) = 2 =>
            /\ gets[2].fn = "html"
            /\ gets[2].timeout = gets[1].timeout
            /\ gets[2].url.q = gets[1].url.q
            /\ gets[2].url.exclude_expired = gets[1].url.exclude_expired
            /\ gets[2].outcome # "ok" => found = <<>> /\ exit_code \in {-1, 0}

C8_Witness ==
    /\ JsonRequestFailed
    /\ args.wildcard /\ args.exclude_expired
    /\ Len(gets) = 2 /\ gets[2].outcome # "ok"
    /\ pc = "exited" /\ exit_code = 0

\* C9: a run whose target domain has no '.' ends with exit code 1 straight
\* from the validation: no GET request, no HEAD request and no output file
\* at any point of the run.
C9_InvalidDomainFatal ==
    ~(\E k \in DOMAIN args.domain : args.domain[k] = ".") =>
        /\ pc \in {"start", "exited"}
        /\ pc = "exited" => exit_code = 1
        /\ calls = <<>>
        /\ gets = <<>>
        /\ cpc = "idle" /\ heads = <<>>
        /\ output = {}

C9_Witness ==
    /\ args.domain = <<"a", "a">>
    /\ pc = "exited"
    /\ exit_code = 1

====
